---- MODULE Spec2Model ----
(***************************************************************************)
(* EPIC test backend (src/main.py, src/schemas.py): registration with a    *)
(* payment proof, payment verification, test results with certificates,    *)
(* student history.  The document store is modelled as four collections,   *)
(* each a sequence of documents in insertion order.  Text that the code     *)
(* encodes (base64, data links, formatted numbers) is a sequence of         *)
(* character codes; opaque strings are TLA+ strings.                        *)
(***************************************************************************)
EXTENDS Integers, Sequences, FiniteSets, TLC

\* ------------------------------------------------------------ bounds
MaxDocs == 3        \* documents the store creates in one behaviour

\* ------------------------------------------------------------ optional values
\* Python's None / a present value
None == <<>>
Some(x) == <<x>>
IsNone(o) == o = <<>>
Val(o) == o[1]

\* ------------------------------------------------------------ text
\* str.encode("utf-8") of the strings the model uses
Utf8(s) ==
  CASE s = "" -> <<>>
    [] s = "21" -> <<50, 49>>
    [] s = "22" -> <<50, 50>>
    [] s = "bad" -> <<98, 97, 100>>
    [] s = "a@x.co" -> <<97, 64, 120, 46, 99, 111>>
    [] s = "image/jpeg" -> <<105, 109, 97, 103, 101, 47, 106, 112, 101, 103>>
    [] s = "image/png" -> <<105, 109, 97, 103, 101, 47, 112, 110, 103>>
    [] s = "application/pdf" -> <<97, 112, 112, 108, 105, 99, 97, 116, 105, 111, 110, 47, 112, 100, 102>>
    [] s = "text/plain" -> <<116, 101, 120, 116, 47, 112, 108, 97, 105, 110>>
    [] s = "application/octet-stream" -> <<97, 112, 112, 108, 105, 99, 97, 116, 105, 111, 110, 47, 111, 99, 116, 101, 116, 45, 115, 116, 114, 101, 97, 109>>

\* the literals of the certificate text and of the data links
CertHead == <<83, 69, 82, 84, 73, 70, 73, 75, 65, 84, 32, 69, 80, 73, 67, 10, 78, 80, 77, 58, 32>>
CertAttempt == <<10, 65, 116, 116, 101, 109, 112, 116, 58, 32>>
CertSkor == <<10, 83, 107, 111, 114, 58, 32>>
CertTanggal == <<10, 84, 97, 110, 103, 103, 97, 108, 58, 32>>
CertTail == <<10>>
PdfUrlPrefix == <<100, 97, 116, 97, 58, 97, 112, 112, 108, 105, 99, 97, 116, 105, 111, 110, 47, 112, 100, 102, 59, 98, 97, 115, 101, 54, 52, 44>>
DataPrefix == <<100, 97, 116, 97, 58>>
Base64Sep == <<59, 98, 97, 115, 101, 54, 52, 44>>

RECURSIVE FormatNat(_)
\* str(n) for n >= 0
FormatNat(n) ==
  IF n < 10 THEN <<48 + n>> ELSE Append(FormatNat(n \div 10), 48 + (n % 10))

\* str(i) of an int, as an f-string renders it
FormatInt(i) == IF i < 0 THEN <<45>> \o FormatNat(0 - i) ELSE FormatNat(i)

\* str(x) of a float; a score is held in tenths (855 is 85.5)
FormatFloat(t) ==
  LET a == IF t < 0 THEN 0 - t ELSE t
  IN  (IF t < 0 THEN <<45>> ELSE <<>>) \o FormatNat(a \div 10) \o <<46>> \o FormatNat(a % 10)

\* zero-padded fields of strftime
Pad2(n) == IF n < 10 THEN <<48>> \o FormatNat(n) ELSE FormatNat(n)

\* datetime.now() at tick t: the clock counts days
Today(t) == [day |-> 6 + t, month |-> 11, year |-> 2026]

\* strftime('%d-%m-%Y')
FormatDate(d) == Pad2(d.day) \o <<45>> \o Pad2(d.month) \o <<45>> \o FormatNat(d.year)

\* ------------------------------------------------------------ base64
\* the base64 alphabet: the character of a 6-bit value
B64Char(v) ==
  IF v < 26 THEN 65 + v
  ELSE IF v < 52 THEN 97 + (v - 26)
  ELSE IF v < 62 THEN 48 + (v - 52)
  ELSE IF v = 62 THEN 43 ELSE 47

RECURSIVE B64Encode(_)
\* base64.b64encode(bytes).decode("utf-8")
B64Encode(b) ==
  IF Len(b) = 0 THEN <<>>
  ELSE IF Len(b) = 1 THEN
    <<B64Char(b[1] \div 4), B64Char((b[1] % 4) * 16), 61, 61>>
  ELSE IF Len(b) = 2 THEN
    <<B64Char(b[1] \div 4), B64Char((b[1] % 4) * 16 + b[2] \div 16),
      B64Char((b[2] % 16) * 4), 61>>
  ELSE
    <<B64Char(b[1] \div 4), B64Char((b[1] % 4) * 16 + b[2] \div 16),
      B64Char((b[2] % 16) * 4 + b[3] \div 64), B64Char(b[3] % 64)>>
    \o B64Encode(SubSeq(b, 4, Len(b)))

\* ------------------------------------------------------------ identifiers
\* a bson ObjectId is modelled by a natural number; its string form is
\* 24 hexadecimal digits
OidHexLen == 24

HexDigit(d) == IF d < 10 THEN 48 + d ELSE 87 + d

RECURSIVE HexOf(_, _)
HexOf(n, len) ==
  IF len = 0 THEN <<>> ELSE Append(HexOf(n \div 16, len - 1), HexDigit(n % 16))

\* str(ObjectId)
OidStr(n) == HexOf(n, OidHexLen)

IsHexChar(c) == (c >= 48 /\ c <= 57) \/ (c >= 97 /\ c <= 102) \/ (c >= 65 /\ c <= 70)

HexVal(c) == IF c <= 57 THEN c - 48 ELSE IF c >= 97 THEN c - 87 ELSE c - 55

RECURSIVE ParseHexTo(_, _)
\* the value of the first n hexadecimal digits of s
ParseHexTo(s, n) ==
  IF n = 0 THEN 0 ELSE ParseHexTo(s, n - 1) * 16 + HexVal(s[n])

ParseHex(s) == ParseHexTo(s, Len(s))

\* bson.ObjectId(s): the identifier, or None where bson raises InvalidId
ObjectId(s) ==
  IF Len(s) = OidHexLen /\ \A i \in 1..Len(s) : IsHexChar(s[i])
  THEN Some(ParseHex(s)) ELSE None

\* ------------------------------------------------------------ schemas
RECURSIVE CountOf(_, _)
CountOf(s, c) ==
  IF Len(s) = 0 THEN 0
  ELSE (IF s[1] = c THEN 1 ELSE 0) + CountOf(SubSeq(s, 2, Len(s)), c)

\* pydantic's EmailStr: one "@", a local part, a domain with an inner dot
EmailStr(e) ==
  LET b == Utf8(e)
      at == CHOOSE i \in 1..Len(b) : b[i] = 64
  IN  /\ CountOf(b, 64) = 1
      /\ at > 1
      /\ \E j \in (at + 2)..(Len(b) - 1) : b[j] = 46

\* Student(npm, name, email) validates
Student(npm, name, email) == EmailStr(email)

\* Payment(...) validates: status is always the literal 'pending' here
Payment(npm, name, email) == EmailStr(email)

\* Test(npm, attempt, score, status, taken_at) validates
Test(npm, attempt, score, status) == attempt >= 1 /\ status \in {"pass", "fail"}

AllowedMimes == {"image/jpeg", "image/png", "application/pdf"}

\* ------------------------------------------------------------ input domains
Npms == {"", "21", "22"}
Names == {"", "Budi", "Ani"}
Emails == {"", "bad", "a@x.co"}
\* an UploadFile (content type, file name, body)
Upload(c, r) == Some([content_type |-> c, filename |-> "proof", raw |-> r])
\* the payment_proof of a form: None when the form carries no file
Files ==
  {None, Upload(Some("image/png"), <<>>), Upload(Some("text/plain"), <<137, 80>>),
   Upload(None, <<137, 80>>)}
\* the files of the registrations whose payments the administration handles
AdminFiles == {None, Upload(Some("image/png"), <<137, 80>>)}
\* the instants the wall clock shows
Instants == {0, 1}
ResultNpms == {"", "21"}
Attempts == {0, 1, 2}
Scores == {0, 855}
VerifyStatuses == {"approved", "rejected", "pending", "Approved"}
ResultStatuses == {"pass", "fail", "lulus"}
\* identifier strings a caller may put in the path: the identifiers the store
\* has generated (of payments and of students) and a malformed one
PaymentIds == {OidStr(n) : n \in 1..MaxDocs} \cup {Utf8("bad")}
Procs == {1, 2}

\* ------------------------------------------------------------ state
VARIABLES
  student,      \* collection "student"
  payment,      \* collection "payment"
  test,         \* collection "test"
  certificate,  \* collection "certificate"
  nextId,       \* the next ObjectId the store generates
  now,          \* the wall clock
  resp,         \* the last request and its response
  pc,           \* concurrent registrations: the position of each request
  local         \* concurrent registrations: the locals of each request

store == <<student, payment, test, certificate, nextId>>
vars == <<student, payment, test, certificate, nextId, now, resp, pc, local>>

\* ------------------------------------------------------------ document store
\* exact-field-equality filter
Matches(d, f) == \A k \in DOMAIN f : k \in DOMAIN d /\ d[k] = f[k]

\* the document create_document stores: the record's fields and the new
\* identifier (the creation timestamp the adapter adds is read by no handler
\* and is left out)
NewDocument(record, id, t) == [_id |-> id] @@ record

\* create_document(collection_name, record): the collection afterwards
create_document(coll, record, id, t) == Append(coll, NewDocument(record, id, t))

\* get_documents(collection_name, filter)
get_documents(coll, f) == SelectSeq(coll, LAMBDA d : Matches(d, f))

\* pymongo find_one: the first matching document, or None
find_one(coll, f) ==
  LET hits == get_documents(coll, f)
  IN  IF Len(hits) = 0 THEN None ELSE Some(hits[1])

\* pymongo update_one(filter, {"$set": patch}): the first matching document
\* gets the patch
update_one(coll, f, patch) ==
  LET idx == {i \in 1..Len(coll) : Matches(coll[i], f)}
  IN  IF idx = {} THEN coll
      ELSE LET m == CHOOSE i \in idx : \A j \in idx : i <= j
           IN  [coll EXCEPT ![m] = patch @@ coll[m]]

\* update_one(...).matched_count
matched_count(coll, f) == IF \E i \in 1..Len(coll) : Matches(coll[i], f) THEN 1 ELSE 0

\* the response of a raised HTTPException, or of an exception nothing handles
Error(op, code, detail) == [op |-> op, code |-> code, detail |-> detail]

Init ==
  /\ student = <<>>
  /\ payment = <<>>
  /\ test = <<>>
  /\ certificate = <<>>
  /\ nextId = 1
  /\ now = 0
  /\ resp = [op |-> "none", code |-> 0]
  /\ pc = [p \in Procs |-> "idle"]
  /\ local = [p \in Procs |-> None]

\* the wall clock advances
Tick ==
  /\ now + 1 \in Instants
  /\ now' = now + 1
  /\ UNCHANGED <<store, resp, pc, local>>

\* ------------------------------------------------------------ POST /registrations
\* a check of the student number alone
FieldsMissing_NpmOnly(npm, name, email) == npm = ""

\* line 36: not npm or not name or not email
FieldsMissing(npm, name, email) == npm = "" \/ name = "" \/ email = ""

\* an upsert that creates whatever the lookup returned
UpsertStudent_AlwaysCreates(coll, existing, npm, name, email, id, t) ==
  create_document(coll, [npm |-> npm, name |-> name, email |-> email], id, t)

\* lines 40-44: the student upsert, given what the lookup returned; the
\* collection afterwards
UpsertStudent(coll, existing, npm, name, email, id, t) ==
  IF IsNone(existing)
  THEN create_document(coll, [npm |-> npm, name |-> name, email |-> email], id, t)
  ELSE update_one(coll, [npm |-> npm],
                  [name |-> name, email |-> email, updated_at |-> t])

\* line 51: payment_proof.content_type or "application/octet-stream"
FileMime(f) ==
  IF IsNone(f.content_type) \/ f.content_type = Some("")
  THEN "application/octet-stream" ELSE Val(f.content_type)

\* line 52
MimeAllowed(m) == m \in AllowedMimes

\* lines 46-67: the Payment record of a request
PaymentRecord(npm, name, email, payment_proof) ==
  [npm |-> npm, name |-> name, email |-> email,
   file_name |-> IF IsNone(payment_proof) THEN None
                 ELSE Some(Val(payment_proof).filename),
   file_mime |-> IF IsNone(payment_proof) THEN None
                 ELSE Some(FileMime(Val(payment_proof))),
   file_data_b64 |-> IF IsNone(payment_proof) THEN None
                     ELSE Some(B64Encode(Val(payment_proof).raw)),
   status |-> "pending", verified_by |-> None, verified_at |-> None]

\* the whole handler, its store operations one after another
create_registration(npm, name, email, payment_proof) ==
  LET existing == find_one(student, [npm |-> npm])
      creates == IsNone(existing)
      student1 == UpsertStudent(student, existing, npm, name, email, nextId, now)
      id1 == IF creates THEN nextId + 1 ELSE nextId
  IN
  /\ UNCHANGED <<test, certificate, now, pc, local>>
  /\ IF FieldsMissing(npm, name, email)
     THEN /\ resp' = Error("create_registration", 400, "Data tidak lengkap")
          /\ UNCHANGED <<student, payment, nextId>>
     ELSE IF creates /\ ~Student(npm, name, email)
     THEN \* Student(...) raises a pydantic ValidationError: nothing handles it
          /\ resp' = Error("create_registration", 500, "Internal Server Error")
          /\ UNCHANGED <<student, payment, nextId>>
     ELSE IF ~IsNone(payment_proof) /\ ~MimeAllowed(FileMime(Val(payment_proof)))
     THEN /\ resp' = Error("create_registration", 400, "Format file tidak didukung. Gunakan JPG/PNG/PDF")
          /\ student' = student1
          /\ nextId' = id1
          /\ UNCHANGED payment
     ELSE IF ~Payment(npm, name, email)
     THEN \* Payment(...) raises a pydantic ValidationError
          /\ resp' = Error("create_registration", 500, "Internal Server Error")
          /\ student' = student1
          /\ nextId' = id1
          /\ UNCHANGED payment
     ELSE /\ student' = student1
          /\ payment' = create_document(payment,
                          PaymentRecord(npm, name, email, payment_proof), id1, now)
          /\ nextId' = id1 + 1
          /\ resp' = [op |-> "create_registration", code |-> 200,
                      message |-> "Registrasi tersimpan", payment_id |-> OidStr(id1)]
  /\ nextId' <= MaxDocs + 1

\* ------------------------------------------------------------ GET /admin/pending
\* Python truthiness of p.get(field): an optional string, an optional text
TruthyStr(o) == ~IsNone(o) /\ Val(o) # ""
TruthyText(o) == ~IsNone(o) /\ Len(Val(o)) > 0

\* a listing of the payments already approved
PendingFilter_Approved == [status |-> "approved"]

\* line 75: the listing's filter
PendingFilter == [status |-> "pending"]

\* lines 80-82
FileUrl(p) ==
  IF TruthyText(p.file_data_b64) /\ TruthyStr(p.file_mime)
  THEN Some(DataPrefix \o Utf8(Val(p.file_mime)) \o Base64Sep \o Val(p.file_data_b64))
  ELSE None

\* lines 83-89
PendingEntry(p) ==
  [_id |-> OidStr(p._id), npm |-> p.npm, name |-> p.name, email |-> p.email,
   file_url |-> FileUrl(p)]

\* lines 75-90: the payments of the response
PendingList(coll) ==
  LET payments == get_documents(coll, PendingFilter)
  IN  [i \in 1..Len(payments) |-> PendingEntry(payments[i])]

list_pending ==
  /\ resp' = [op |-> "list_pending", code |-> 200, payments |-> PendingList(payment)]
  /\ UNCHANGED <<store, now, pc, local>>

\* ------------------------------------------------------------ POST /admin/verify/{payment_id}
\* a check against the statuses of the Payment schema
VerifyStatusOk_SchemaStatuses(status) == status \in {"pending", "approved", "rejected"}

\* line 98
VerifyStatusOk(status) == status \in {"approved", "rejected"}

\* line 102: the $set of the update
VerifyPatch(status, t) == [status |-> status, verified_at |-> Some(t)]

\* an update with a transition guard: only a pending payment is verified
VerifyUpdate_PendingOnly(coll, oid, status, t) ==
  update_one(coll, [_id |-> oid, status |-> "pending"], VerifyPatch(status, t))

\* lines 100-103: the payment collection after the update
VerifyUpdate(coll, oid, status, t) ==
  update_one(coll, [_id |-> oid], VerifyPatch(status, t))

verify_payment(payment_id, status) ==
  LET oid == ObjectId(payment_id)
  IN
  /\ UNCHANGED <<student, test, certificate, nextId, now, pc, local>>
  /\ IF ~VerifyStatusOk(status)
     THEN /\ resp' = Error("verify_payment", 400, "Status tidak valid")
          /\ UNCHANGED payment
     ELSE IF IsNone(oid)
     THEN \* bson raises InvalidId: nothing handles it
          /\ resp' = Error("verify_payment", 500, "Internal Server Error")
          /\ UNCHANGED payment
     ELSE /\ payment' = VerifyUpdate(payment, Val(oid), status, now)
          /\ resp' = IF matched_count(payment, [_id |-> Val(oid)]) = 0
                      THEN Error("verify_payment", 404, "Payment tidak ditemukan")
                      ELSE [op |-> "verify_payment", code |-> 200, ok |-> TRUE]

\* ------------------------------------------------------------ POST /admin/result
\* line 117
ResultStatusOk(status) == status \in {"pass", "fail"}

\* lines 125 and 147: the text of the certificate
CertContent(npm, attempt, score, date) ==
  CertHead \o Utf8(npm) \o CertAttempt \o FormatInt(attempt) \o CertSkor
  \o FormatFloat(score) \o CertTanggal \o FormatDate(date) \o CertTail

\* lines 126-127 and 148-149: the data link of a certificate
CertUrl(npm, attempt, score, date) ==
  PdfUrlPrefix \o B64Encode(CertContent(npm, attempt, score, date))

\* a certificate for every recorded result
IssuesCertificate_AnyResult(status) == TRUE

\* line 123: whether the result issues a certificate
IssuesCertificate(status) == status = "pass"

submit_result(npm, attempt, score, status) ==
  LET t == [npm |-> npm, attempt |-> attempt, score |-> score, status |-> status,
            taken_at |-> Some(now)]
  IN
  /\ UNCHANGED <<student, payment, now, pc, local>>
  /\ IF ~ResultStatusOk(status)
     THEN /\ resp' = Error("submit_result", 400, "Status hasil tidak valid")
          /\ UNCHANGED <<test, certificate, nextId>>
     ELSE IF ~Test(npm, attempt, score, status)
     THEN \* Test(...) raises a pydantic ValidationError: nothing handles it
          /\ resp' = Error("submit_result", 500, "Internal Server Error")
          /\ UNCHANGED <<test, certificate, nextId>>
     ELSE IF IssuesCertificate(status)
     THEN /\ test' = create_document(test, t, nextId, now)
          /\ certificate' = create_document(certificate,
                              [npm |-> npm, attempt |-> attempt, issued_at |-> Some(now)],
                              nextId + 1, now)
          /\ nextId' = nextId + 2
          /\ resp' = [op |-> "submit_result", code |-> 200,
                      certificate_url |-> Some(CertUrl(npm, attempt, score, Today(now)))]
     ELSE /\ test' = create_document(test, t, nextId, now)
          /\ nextId' = nextId + 1
          /\ UNCHANGED certificate
          /\ resp' = [op |-> "submit_result", code |-> 200,
                      certificate_url |-> None]
  /\ nextId' <= MaxDocs + 1

\* ------------------------------------------------------------ GET /students/{npm}/history
RECURSIVE InsertByAttempt(_, _)
\* x into the sorted s, after the elements whose key is not larger
InsertByAttempt(s, x) ==
  IF Len(s) = 0 THEN <<x>>
  ELSE IF s[Len(s)].attempt <= x.attempt THEN Append(s, x)
  ELSE Append(InsertByAttempt(SubSeq(s, 1, Len(s) - 1), x), s[Len(s)])

\* the tests in store order
SortedByAttempt_StoreOrder(s) == s

RECURSIVE SortedByAttempt(_)
\* line 137: sorted(tests, key=attempt), a stable sort
SortedByAttempt(s) ==
  IF Len(s) = 0 THEN <<>>
  ELSE InsertByAttempt(SortedByAttempt(SubSeq(s, 1, Len(s) - 1)), s[Len(s)])

\* lines 143-149: the certificate link of one test
HistoryCertUrl(certs, npm, t, date) ==
  LET cert == find_one(certs, [npm |-> npm, attempt |-> t.attempt])
  IN  IF t.status = "pass" /\ ~IsNone(cert)
      THEN Some(CertUrl(npm, t.attempt, t.score, date))
      ELSE None

\* lines 150-157
HistoryEntry(certs, npm, t, date) ==
  [id |-> OidStr(t._id), attempt |-> t.attempt, score |-> t.score,
   status |-> t.status, taken_at |-> t.taken_at,
   certificate_url |-> HistoryCertUrl(certs, npm, t, date)]

\* lines 135-158: the tests of the response
History(tests, certs, npm, date) ==
  LET tests_sorted == SortedByAttempt(get_documents(tests, [npm |-> npm]))
  IN  [i \in 1..Len(tests_sorted) |-> HistoryEntry(certs, npm, tests_sorted[i], date)]

student_history(npm) ==
  /\ resp' = [op |-> "student_history", code |-> 200,
              tests |-> History(test, certificate, npm, Today(now))]
  /\ UNCHANGED <<store, now, pc, local>>

\* ------------------------------------------------------------ requests one after another
\* The handlers of registration, of payment administration and of test
\* results touch disjoint collections; each group is checked on its own.

\* registrations only: every form a caller can post
NextRegistration ==
  \/ \E npm \in Npms, name \in Names, email \in Emails, f \in Files :
       create_registration(npm, name, email, f)

SpecRegistration == Init /\ [][NextRegistration]_vars

\* payment administration over the payments of accepted registrations
NextAdmin ==
  \/ Tick
  \/ \E f \in AdminFiles : create_registration("21", "Budi", "a@x.co", f)
  \/ list_pending
  \/ \E id \in PaymentIds, s \in VerifyStatuses : verify_payment(id, s)

SpecAdmin == Init /\ [][NextAdmin]_vars

\* test results and the history built from them
NextResult ==
  \/ \E npm \in ResultNpms, a \in Attempts, sc \in Scores, s \in ResultStatuses :
       submit_result(npm, a, sc, s)
  \/ \E npm \in ResultNpms : student_history(npm)

SpecResult == Init /\ [][NextResult]_vars

\* ------------------------------------------------------------ concurrent registrations
\* Two POST /registrations requests served at the same time.  A request is
\* cut at its store operations (lines 40, 42/44, 68) and at its await (line
\* 54); the steps of the two requests interleave in any order.
\* Both requests are ones the handler accepts.
ConcNpms == {"21", "22"}
ConcNames == {"Budi", "Ani"}
ConcFiles == {None, Upload(Some("image/png"), <<137, 80>>)}

Finish(p, code) ==
  /\ pc' = [pc EXCEPT ![p] = "done"]
  /\ local' = [local EXCEPT ![p] = Some([Val(local[p]) EXCEPT !.code = code])]

\* the request arrives; line 36
RegStart(p, npm, name, email, f) ==
  /\ pc[p] = "idle"
  /\ local' = [local EXCEPT ![p] =
       Some([npm |-> npm, name |-> name, email |-> email, file |-> f,
             existing |-> None,
             code |-> IF FieldsMissing(npm, name, email) THEN 400 ELSE 0])]
  /\ pc' = [pc EXCEPT ![p] = IF FieldsMissing(npm, name, email) THEN "done" ELSE "lookup"]
  /\ UNCHANGED <<store, now, resp>>

\* line 40: the lookup
RegLookup(p) ==
  /\ pc[p] = "lookup"
  /\ local' = [local EXCEPT ![p] =
       Some([Val(local[p]) EXCEPT !.existing = find_one(student, [npm |-> Val(local[p]).npm])])]
  /\ pc' = [pc EXCEPT ![p] = "upsert"]
  /\ UNCHANGED <<store, now, resp>>

\* lines 41-53: the create or the update, decided by what the lookup returned,
\* then the check of the file's type
RegUpsert(p) ==
  LET r == Val(local[p])
      creates == IsNone(r.existing)
  IN
  /\ pc[p] = "upsert"
  /\ UNCHANGED <<payment, test, certificate, now, resp>>
  /\ IF creates /\ ~Student(r.npm, r.name, r.email)
     THEN /\ Finish(p, 500)
          /\ UNCHANGED <<student, nextId>>
     ELSE /\ student' = UpsertStudent(student, r.existing, r.npm, r.name, r.email, nextId, now)
          /\ nextId' = IF creates THEN nextId + 1 ELSE nextId
          /\ IF ~IsNone(r.file) /\ ~MimeAllowed(FileMime(Val(r.file)))
             THEN Finish(p, 400)
             ELSE /\ pc' = [pc EXCEPT ![p] = IF IsNone(r.file) THEN "pay" ELSE "read"]
                  /\ UNCHANGED local

\* line 54: await payment_proof.read()
RegRead(p) ==
  /\ pc[p] = "read"
  /\ pc' = [pc EXCEPT ![p] = "pay"]
  /\ UNCHANGED <<store, now, resp, local>>

\* lines 59-70: the payment
RegPay(p) ==
  LET r == Val(local[p])
  IN
  /\ pc[p] = "pay"
  /\ UNCHANGED <<student, test, certificate, now, resp>>
  /\ IF ~Payment(r.npm, r.name, r.email)
     THEN /\ Finish(p, 500)
          /\ UNCHANGED <<payment, nextId>>
     ELSE /\ payment' = create_document(payment,
                          PaymentRecord(r.npm, r.name, r.email, r.file), nextId, now)
          /\ nextId' = nextId + 1
          /\ Finish(p, 200)

NextConcurrent ==
  \E p \in Procs :
    \/ \E npm \in ConcNpms, name \in ConcNames, f \in ConcFiles :
         RegStart(p, npm, name, "a@x.co", f)
    \/ RegLookup(p)
    \/ RegUpsert(p)
    \/ RegRead(p)
    \/ RegPay(p)

SpecConcurrent == Init /\ [][NextConcurrent]_vars

\* ============================================================ properties
\* the number of documents of a collection matching a filter
Count(coll, f) == Len(get_documents(coll, f))

\* the file types the registration form must reject
BadFile(f) == ~IsNone(f) /\ FileMime(Val(f)) \notin {"image/jpeg", "image/png", "application/pdf"}

\* ------------------------------------------------------------ C1
C1_OnePerNpm ==
  \A n \in Npms :
    /\ Count(student, [npm |-> n]) <= 1
    /\ Count(payment, [npm |-> n]) > 0 => Count(student, [npm |-> n]) = 1

\* an accepted registration leaves one Student of its npm, carrying its name
\* and email, and adds no Student when one existed
C1_Overwrites ==
  (resp'.op = "create_registration" /\ resp'.code = 200 /\ Len(payment') = Len(payment) + 1)
  => LET pay == payment'[Len(payment')]
         mine == get_documents(student', [npm |-> pay.npm])
     IN  /\ Len(mine) = 1
         /\ mine[1].name = pay.name
         /\ mine[1].email = pay.email
         /\ Count(student, [npm |-> pay.npm]) = 1 => Len(student') = Len(student)

\* C1: with registrations handled one after another, the student collection
\* holds at most one Student per npm and exactly one for every npm that has a
\* registration (a Payment); an accepted registration whose npm already has a
\* Student overwrites that record's name and email and creates no second one.
C1_StudentUpsert == [](C1_OnePerNpm) /\ [][C1_Overwrites]_vars

\* a second accepted registration of an npm, under another name, has overwritten
\* the one Student record
C1_Witness ==
  /\ resp.op = "create_registration" /\ resp.code = 200
  /\ \E i, j \in 1..Len(payment) :
       /\ i < j /\ j = Len(payment)
       /\ payment[i].npm = payment[j].npm /\ payment[i].name # payment[j].name
       /\ Count(student, [npm |-> payment[j].npm]) = 1
       /\ get_documents(student, [npm |-> payment[j].npm])[1].name = payment[j].name

\* ------------------------------------------------------------ C2
\* C2: every registration that attaches a file whose declared type is not
\* image/jpeg, image/png or application/pdf is answered 400 and leaves the
\* payment collection as it was.
C2_BadMimeIs400 ==
  [][ \/ resp'.code = 400 /\ payment' = payment
      \/ ~ \E npm \in Npms, name \in Names, email \in Emails, f \in Files :
             BadFile(f) /\ create_registration(npm, name, email, f) ]_vars

C4_BadStatusIs400 ==
  [][ \/ resp'.code = 400 /\ payment' = payment
      \/ ~ \E id \in PaymentIds, s \in VerifyStatuses :
             s \notin {"approved", "rejected"} /\ verify_payment(id, s) ]_vars

\* a verify request was refused for its status while a verified payment was stored
C4_Witness ==
  /\ resp.op = "verify_payment" /\ resp.code = 400
  /\ \E i \in 1..Len(payment) : payment[i].status = "approved" /\ payment[i].verified_at # None
  /\ \E i \in 1..Len(payment) : payment[i].status = "pending"

\* ------------------------------------------------------------ C5
\* the identifier string is that of no stored Payment
MatchesNoPayment(id) == \A i \in 1..Len(payment) : OidStr(payment[i]._id) # id

\* C5: every verify request with status approved or rejected whose identifier
\* string matches no stored Payment is answered 404 and changes no Payment.
C5_UnknownIdIs404 ==
  [][ \/ resp'.code = 404 /\ payment' = payment
      \/ ~ \E id \in PaymentIds, s \in {"approved", "rejected"} :
             MatchesNoPayment(id) /\ verify_payment(id, s) ]_vars

\* ------------------------------------------------------------ C8
\* the listing has one entry per pending Payment, in store order, and none for
\* any other Payment; an entry's file reference is null when no file was attached
C8_ListsPending ==
  LET out == PendingList(payment)
      pend == {i \in 1..Len(payment) : payment[i].status = "pending"}
  IN  /\ Len(out) = Cardinality(pend)
      /\ \A i \in pend :
           /\ Cardinality({k \in 1..Len(out) : out[k]._id = OidStr(payment[i]._id)}) = 1
           /\ \A k \in 1..Len(out) :
                out[k]._id = OidStr(payment[i]._id) =>
                  /\ out[k].npm = payment[i].npm
                  /\ IsNone(payment[i].file_data_b64) => IsNone(out[k].file_url)
      /\ \A i \in (1..Len(payment)) \ pend :
           \A k \in 1..Len(out) : out[k]._id # OidStr(payment[i]._id)
      /\ resp.op = "list_pending" => resp.payments = out

\* a listing changes no record; a Payment is created pending, leaves pending
\* only by a successful verify, and never returns to pending
C8_Step ==
  /\ resp'.op = "list_pending" => UNCHANGED <<student, payment, test, certificate>>
  /\ Len(payment') >= Len(payment)
  /\ \A i \in 1..Len(payment') :
       IF i > Len(payment) THEN payment'[i].status = "pending"
       ELSE /\ payment[i].status # "pending" => payment'[i].status # "pending"
            /\ (payment[i].status = "pending" /\ payment'[i].status # "pending")
                 => resp'.op = "verify_payment" /\ resp'.code = 200

\* C8: GET /admin/pending returns exactly one entry for each pending Payment and
\* none for any other, and changes nothing; a Payment created by a registration
\* is listed until a successful verify on it and never again afterwards.
C8_PendingListing == [](C8_ListsPending) /\ [][C8_Step]_vars

\* a listing of one pending payment without file, beside a verified payment
C8_Witness ==
  /\ resp.op = "list_pending"
  /\ Len(resp.payments) = 1 /\ IsNone(resp.payments[1].file_url)
  /\ Len(payment) = 2
  /\ \E i \in 1..Len(payment) : payment[i].status = "rejected"

\* ------------------------------------------------------------ C9
\* what the read endpoints return
Observable(pays, tests, certs, t) ==
  <<PendingList(pays), [n \in Npms |-> History(tests, certs, n, Today(t))]>>

\* C9: for every stored Payment, whatever its status, and every s in
\* {approved, rejected}, the verify request is answered 200 and sets the status
\* to s, leaving every other Payment alone; on a Payment whose status is s
\* already it changes nothing a read endpoint returns.
C9_VerifyUnguarded ==
  [][ resp'.op = "verify_payment" =>
      \A i \in 1..Len(payment), s \in {"approved", "rejected"} :
        verify_payment(OidStr(payment[i]._id), s) =>
          /\ resp'.code = 200
          /\ Len(payment') = Len(payment)
          /\ payment'[i].status = s
          /\ \A j \in (1..Len(payment)) \ {i} : payment'[j] = payment[j]
          /\ payment[i].status = s =>
               /\ Observable(payment', test', certificate', now')
                    = Observable(payment, test, certificate, now)
               /\ [payment'[i] EXCEPT !.verified_at = None]
                    = [payment[i] EXCEPT !.verified_at = None] ]_vars

\* a payment rejected at instant 0 stands approved at instant 1
C9_Witness ==
  /\ resp.op = "verify_payment" /\ resp.code = 200
  /\ \E i, j \in 1..Len(payment) :
       /\ payment[i].status = "approved" /\ payment[i].verified_at = Some(1)
       /\ payment[j].status = "rejected" /\ payment[j].verified_at = Some(0)

\* ------------------------------------------------------------ C6
\* the 6-bit value of a base64 character
B64Val(c) ==
  IF c >= 65 /\ c <= 90 THEN c - 65
  ELSE IF c >= 97 /\ c <= 122 THEN c - 71
  ELSE IF c >= 48 /\ c <= 57 THEN c + 4
  ELSE IF c = 43 THEN 62 ELSE 63

RECURSIVE B64Decode(_)
\* base64.b64decode of a padded text
B64Decode(c) ==
  IF Len(c) < 4 THEN <<>>
  ELSE LET b1 == B64Val(c[1]) * 4 + B64Val(c[2]) \div 16
           b2 == (B64Val(c[2]) % 16) * 16 + B64Val(c[3]) \div 4
           b3 == (B64Val(c[3]) % 4) * 64 + B64Val(c[4])
       IN  (IF c[3] = 61 THEN <<b1>> ELSE IF c[4] = 61 THEN <<b1, b2>> ELSE <<b1, b2, b3>>)
           \o B64Decode(SubSeq(c, 5, Len(c)))

\* the text a certificate link encodes
LinkText(url) == B64Decode(SubSeq(url, Len(PdfUrlPrefix) + 1, Len(url)))

Contains(t, sub) ==
  \E i \in 0..(Len(t) - Len(sub)) : SubSeq(t, i + 1, i + Len(sub)) = sub

LabelNpm == <<78, 80, 77, 58, 32>>
LabelAttempt == <<65, 116, 116, 101, 109, 112, 116, 58, 32>>
LabelSkor == <<83, 107, 111, 114, 58, 32>>

\* the certificate link of a response, None when it carries none
LinkOf(r) == IF "certificate_url" \in DOMAIN r THEN r.certificate_url ELSE None

\* the outcome the claim gives a 'pass' request
PassOutcome(npm, a, sc) ==
  /\ Len(certificate') = Len(certificate) + 1
  /\ SubSeq(certificate', 1, Len(certificate)) = certificate
  /\ certificate'[Len(certificate')].npm = npm
  /\ certificate'[Len(certificate')].attempt = a
  /\ ~IsNone(LinkOf(resp'))
  /\ LET url == Val(LinkOf(resp'))
     IN  /\ SubSeq(url, 1, Len(PdfUrlPrefix)) = PdfUrlPrefix
         /\ Contains(LinkText(url), LabelNpm \o Utf8(npm) \o <<10>>)
         /\ Contains(LinkText(url), LabelAttempt \o FormatInt(a) \o <<10>>)
         /\ Contains(LinkText(url), LabelSkor \o FormatFloat(sc) \o <<10>>)

\* the outcome the claim gives a 'fail' request
FailOutcome == certificate' = certificate /\ IsNone(LinkOf(resp'))

HistoryOf(out, npm) ==
  LET mine == get_documents(test, [npm |-> npm])
  IN  /\ Len(out) = Len(mine)
      /\ \A i \in 1..Len(mine) :
           Cardinality({k \in 1..Len(out) : out[k].id = OidStr(mine[i]._id)}) = 1
      /\ \A k \in 1..(Len(out) - 1) : out[k].attempt <= out[k + 1].attempt
      /\ \A k \in 1..Len(out) :
           /\ (out[k].status = "pass"
                 /\ Count(certificate, [npm |-> npm, attempt |-> out[k].attempt]) > 0)
                => ~IsNone(out[k].certificate_url)
           /\ out[k].status = "fail" => IsNone(out[k].certificate_url)

\* C7: the history of a student number has one entry per stored Test of that
\* number, in non-decreasing order of attempt; a 'pass' entry whose (npm,
\* attempt) has a Certificate carries a link, a 'fail' entry carries none.
C7_History ==
  /\ \A n \in ResultNpms : HistoryOf(History(test, certificate, n, Today(now)), n)
  /\ resp.op = "student_history" => \E n \in ResultNpms : HistoryOf(resp.tests, n)

\* a history with a linked 'pass' entry and a 'fail' entry of the same attempt,
\* from tests stored in descending order of attempt
C7_Witness ==
  /\ resp.op = "student_history" /\ Len(resp.tests) = 2
  /\ \E k \in 1..2 : resp.tests[k].status = "pass" /\ ~IsNone(resp.tests[k].certificate_url)
  /\ \E k \in 1..2 :
       /\ resp.tests[k].status = "fail"
       /\ \E c \in 1..Len(certificate) : certificate[c].attempt = resp.tests[k].attempt

\* ------------------------------------------------------------ C10
\* C10: when the concurrent registrations have all been answered, whatever the
\* order of their store operations, every npm they registered has exactly one
\* Student and one Payment per request.
C10_OneStudentPerNpm ==
  (\A p \in Procs : pc[p] = "done") =>
    \A n \in ConcNpms :
      LET ok == {p \in Procs : Val(local[p]).npm = n /\ Val(local[p]).code = 200}
      IN  ok # {} => /\ Count(student, [npm |-> n]) = 1
                     /\ Count(payment, [npm |-> n]) = Cardinality(ok)

====
